---- MODULE Spec2Model ----
(***************************************************************************)
(* King Tire inventory manager (src/king_tire_inventory_react_supabase.jsx) *)
(* as a state machine: the React state of the component, the Supabase      *)
(* table and storage bucket it talks to, and the handler invocations that  *)
(* are suspended at an await.                                              *)
(*                                                                         *)
(* JavaScript values are records [k, s, n] of one shape, so that values of *)
(* different JavaScript types can be compared: k is the type, s the        *)
(* characters of a string (a sequence of one-character strings), n the     *)
(* value of a number.                                                      *)
(***************************************************************************)
EXTENDS Integers, Sequences, FiniteSets, TLC

VARIABLES
    tires,      \* useState([])      the in-memory record list
    loading,    \* useState(false)   the busy flag
    filter,     \* useState("")      the search query (characters)
    formOpen,   \* useState(false)
    editing,    \* useState(null)    the record being edited, NullTire for null
    form,       \* useState({...})   the draft
    table,      \* the rows of the `tires` table, in insertion order
    bucket,     \* the blob names stored in the `tire-images` bucket
    calls,      \* handler invocations suspended at an await, oldest first
    clock,      \* the client's clock: Date.now() / new Date()
    nextId,     \* the store's id generator (uuid_generate_v4, now())
    toast,      \* the last notification shown by react-toastify
    prompt,     \* the answer the user gave to the last confirm()
    csv,        \* the text of the last CSV download, <<>> before any
    focus       \* where the user of this run puts input besides the buttons:
                \* one field of the form, or "grid" for the Delete buttons

vars == <<tires, loading, filter, formOpen, editing, form, table, bucket,
          calls, clock, nextId, toast, prompt, csv, focus>>

---------------------------------------------------------------------------
(* Bounds of the model *)

\* rows the store ever creates in one run
MaxIds == 2
\* submissions of the form in one run (each one advances the client's clock)
MaxClock == 2
\* handler invocations suspended at the same time
MaxCalls == 2
\* length of the record lists the view specification starts from
MaxList == 2

---------------------------------------------------------------------------
(* JavaScript values *)

Str(chars) == [k |-> "str", s |-> chars, n |-> 0]
Num(i) == [k |-> "num", s |-> <<>>, n |-> i]
Null == [k |-> "null", s |-> <<>>, n |-> 0]
NaN == [k |-> "nan", s |-> <<>>, n |-> 0]
\* a File object picked in <input type="file">; s is its name
File(name) == [k |-> "file", s |-> name, n |-> 0]

\* ToBoolean
Truthy(v) ==
    CASE v.k = "str" -> v.s # <<>>
      [] v.k = "num" -> v.n # 0
      [] v.k = "file" -> TRUE
      [] OTHER -> FALSE

\* a || b
Or(a, b) == IF Truthy(a) THEN a ELSE b

\* a ?? b
Coalesce(a, b) == IF a.k = "null" THEN b ELSE a

Digits == <<"0", "1", "2", "3", "4", "5", "6", "7", "8", "9">>

IsDigit(c) == \E d \in 1..10 : Digits[d] = c

DigitValue(c) == (CHOOSE d \in 1..10 : Digits[d] = c) - 1

\* String.prototype.toLowerCase, on the characters the model uses
LowerChar(c) ==
    CASE c = "A" -> "a"
      [] c = "B" -> "b"
      [] OTHER -> c

toLowerCase(chars) == [i \in 1..Len(chars) |-> LowerChar(chars[i])]

RECURSIVE TrimStart(_)
TrimStart(chars) ==
    IF chars # <<>> /\ Head(chars) = " " THEN TrimStart(Tail(chars)) ELSE chars

RECURSIVE TrimEnd(_)
TrimEnd(chars) ==
    IF chars # <<>> /\ chars[Len(chars)] = " "
    THEN TrimEnd(SubSeq(chars, 1, Len(chars) - 1))
    ELSE chars

\* String.prototype.trim
trim(chars) == TrimEnd(TrimStart(chars))

\* String.prototype.includes
includes(chars, q) ==
    \E i \in 0..(Len(chars) - Len(q)) : SubSeq(chars, i + 1, i + Len(q)) = q

RECURSIVE ParseDigits(_, _)
ParseDigits(chars, acc) ==
    IF chars = <<>> THEN acc
    ELSE ParseDigits(Tail(chars), 10 * acc + DigitValue(Head(chars)))

\* Number(v): StringToNumber trims, reads "" as 0 and a digit string as its
\* value; anything else the model types is NaN
Number(v) ==
    CASE v.k = "num" -> v
      [] v.k = "null" -> Num(0)
      [] v.k = "str" ->
            LET t == trim(v.s) IN
            IF t = <<>> THEN Num(0)
            ELSE IF \A i \in 1..Len(t) : IsDigit(t[i]) THEN Num(ParseDigits(t, 0))
            ELSE NaN
      [] OTHER -> NaN

RECURSIVE NatToString(_)
NatToString(i) ==
    IF i < 10 THEN <<Digits[i + 1]>>
    ELSE NatToString(i \div 10) \o <<Digits[(i % 10) + 1]>>

\* v.toString() for the values a record holds
toString(v) ==
    CASE v.k = "num" -> IF v.n < 0 THEN <<"-">> \o NatToString(-v.n) ELSE NatToString(v.n)
      [] v.k = "nan" -> <<"N", "a", "N">>
      [] OTHER -> v.s

---------------------------------------------------------------------------
(* Records, the draft, and the pure functions of the component *)

TextFields == {"sku", "brand", "model", "size", "ply", "notes"}

\* null, as the value of `editing` and as an absent record
NullTire ==
    [id |-> 0, sku |-> Null, brand |-> Null, model |-> Null, size |-> Null,
     ply |-> Null, price |-> Null, condition |-> Null, quantity |-> Null,
     notes |-> Null, image_path |-> Null, created_at |-> 0, updated_at |-> 0]

New == <<"N", "e", "w">>

\* the draft of useState and of resetForm
EmptyForm ==
    [sku |-> Str(<<>>), brand |-> Str(<<>>), model |-> Str(<<>>),
     size |-> Str(<<>>), ply |-> Str(<<>>), price |-> Str(<<>>),
     condition |-> Str(New), quantity |-> Num(1), notes |-> Str(<<>>),
     image_file |-> Null]

\* the draft handleEdit seeds from a record
EditForm(tire) ==
    [sku |-> Or(tire.sku, Str(<<>>)),
     brand |-> Or(tire.brand, Str(<<>>)),
     model |-> Or(tire.model, Str(<<>>)),
     size |-> Or(tire.size, Str(<<>>)),
     ply |-> Or(tire.ply, Str(<<>>)),
     price |-> Or(tire.price, Str(<<>>)),
     condition |-> Or(tire.condition, Str(New)),
     quantity |-> Or(tire.quantity, Num(1)),
     notes |-> Or(tire.notes, Str(<<>>)),
     image_file |-> Null]

\* a payload that falls back to the form's defaults instead of 0
PayloadDefaultsOne(f, image_path, now) ==
    [id |-> 0, sku |-> f.sku, brand |-> f.brand, model |-> f.model,
     size |-> f.size, ply |-> f.ply, price |-> Or(f.price, Num(1)),
     condition |-> f.condition, quantity |-> Or(Number(f.quantity), Num(1)),
     notes |-> f.notes, image_path |-> image_path, created_at |-> 0,
     updated_at |-> now]

\* the payload handleSave builds from the draft it was submitted with
Payload(f, image_path, now) ==
    [id |-> 0, sku |-> f.sku, brand |-> f.brand, model |-> f.model,
     size |-> f.size, ply |-> f.ply, price |-> Or(f.price, Num(0)),
     condition |-> f.condition, quantity |-> Or(Number(f.quantity), Num(0)),
     notes |-> f.notes, image_path |-> image_path, created_at |-> 0,
     updated_at |-> now]

RECURSIVE Ext(_)
\* file.name.split(".").pop()
Ext(name) ==
    IF \E i \in 1..Len(name) : name[i] = "."
    THEN Ext(Tail(name))
    ELSE name

\* `${Date.now()}-${Math.random().toString(36).slice(2)}.${fileExt}`
FileName(now, rnd, file) ==
    Str(NatToString(now) \o <<"-">> \o rnd \o <<".">> \o Ext(file.s))

\* the predicate of filteredTires
Matches(t, q) ==
    \/ includes(toLowerCase(Or(t.brand, Str(<<>>)).s), q)
    \/ includes(toLowerCase(Or(t.model, Str(<<>>)).s), q)
    \/ includes(toLowerCase(Or(t.size, Str(<<>>)).s), q)
    \/ includes(toLowerCase(Or(t.sku, Str(<<>>)).s), q)

\* a search that looks at the brand alone
MatchesBrandOnly(t, q) == includes(toLowerCase(Or(t.brand, Str(<<>>)).s), q)

FilteredTiresBrandOnly(ts, flt) ==
    LET q == toLowerCase(trim(flt)) IN
    IF q = <<>> THEN ts ELSE SelectSeq(ts, LAMBDA t : MatchesBrandOnly(t, q))

\* filteredTires() for a list and a query; Array.prototype.filter is SelectSeq
FilteredTires(ts, flt) ==
    LET q == toLowerCase(trim(flt)) IN
    IF q = <<>> THEN ts ELSE SelectSeq(ts, LAMBDA t : Matches(t, q))

filteredTires == FilteredTires(tires, filter)

RECURSIVE SumQuantity(_)
SumQuantity(ts) ==
    IF ts = <<>> THEN 0
    ELSE Or(Number(Head(ts).quantity), Num(0)).n + SumQuantity(Tail(ts))

\* inventoryCount() for a list
InventoryCount(ts) == SumQuantity(ts)

inventoryCount == InventoryCount(tires)

Ids(ts) == {ts[i].id : i \in 1..Len(ts)}

---------------------------------------------------------------------------
(* The store: the `tires` table and the `tire-images` bucket *)

RECURSIVE InsertDesc(_, _)
InsertDesc(r, sorted) ==
    IF sorted = <<>> THEN <<r>>
    ELSE IF r.created_at >= Head(sorted).created_at THEN <<r>> \o sorted
    ELSE <<Head(sorted)>> \o InsertDesc(r, Tail(sorted))

RECURSIVE OrderDesc(_)
OrderDesc(rows) ==
    IF rows = <<>> THEN <<>> ELSE InsertDesc(Head(rows), OrderDesc(Tail(rows)))

\* from("tires").select("*").order("created_at", { ascending: false })
ListAll(rows) == OrderDesc(rows)

\* the cast of a value to a numeric / int column
ToNumeric(v) == IF v.k = "null" THEN Null ELSE Number(v)

\* the row the table holds for a payload: id and created_at are the store's
\* (uuid_generate_v4(), now()), price and quantity are cast to their columns
StoredRow(payload, id, created_at) ==
    [payload EXCEPT !.id = id, !.created_at = created_at,
                    !.price = ToNumeric(payload.price),
                    !.quantity = ToNumeric(payload.quantity)]

\* the store rejects a value it cannot cast
Storable(payload) ==
    ToNumeric(payload.price).k # "nan" /\ ToNumeric(payload.quantity).k # "nan"

\* from("tires").update(payload).eq("id", id)
UpdateRows(rows, id, payload) ==
    [i \in 1..Len(rows) |->
        IF rows[i].id = id
        THEN StoredRow(payload, rows[i].id, rows[i].created_at)
        ELSE rows[i]]

\* a delete whose filter keeps the record and drops the others
DeleteOtherRows(rows, id) == SelectSeq(rows, LAMBDA r : r.id = id)

\* from("tires").delete().eq("id", id)
DeleteRows(rows, id) == SelectSeq(rows, LAMBDA r : r.id # id)

---------------------------------------------------------------------------
(* Handler invocations suspended at an await.  op is the request awaited,   *)
(* st its state (sent, or answered ok / err and not yet resumed); form and  *)
(* editing are the values the handler closed over when it was invoked;      *)
(* image_path, fileName and payload are handleSave's locals; id is          *)
(* handleDelete's argument; data is the response of a select; origin and    *)
(* newId record, for a refresh, the handler that started it and the id the  *)
(* store gave the row that handler inserted.                                *)

NoCall ==
    [op |-> "", st |-> "sent", form |-> EmptyForm, editing |-> NullTire,
     image_path |-> Null, fileName |-> Null, payload |-> NullTire, id |-> 0,
     origin |-> "", data |-> <<>>, newId |-> 0]

Without(i) == SubSeq(calls, 1, i - 1) \o SubSeq(calls, i + 1, Len(calls))

\* the awaited select of fetchTires, started by `origin`
FetchCall(origin, from) ==
    [NoCall EXCEPT !.op = "fetch", !.origin = origin, !.form = from.form,
                   !.editing = from.editing, !.id = from.id,
                   !.newId = from.newId]

\* the awaited update / insert of handleSave
WriteCall(f, e, image_path, fileName, now) ==
    [NoCall EXCEPT !.op = IF e # NullTire THEN "update" ELSE "insert",
                   !.form = f, !.editing = e, !.image_path = image_path,
                   !.fileName = fileName,
                   !.payload = Payload(f, image_path, now)]

Saves == {i \in 1..Len(calls) : calls[i].op \in {"upload", "insert", "update"}}

Deletes == {i \in 1..Len(calls) : calls[i].op = "delete"}

Fetches == {i \in 1..Len(calls) : calls[i].op = "fetch"}

PendingCreates == Cardinality({i \in Saves : calls[i].editing = NullTire})

---------------------------------------------------------------------------
(* What the user types *)

Rands == {<<"r">>}

FieldInputs(f) ==
    CASE f = "sku" -> {Str(<<"a">>)}
      [] f = "price" -> {Str(<<"5">>)}
      [] f = "quantity" -> {Str(<<>>), Str(<<"x">>)}
      [] f = "image_file" -> {File(<<"p", ".", "j">>)}
      [] OTHER -> {}

FormFields ==
    {"sku", "brand", "model", "size", "ply", "price", "condition", "quantity",
     "notes", "image_file"}

---------------------------------------------------------------------------
(* The component *)

\* after the first render and its effect: fetchTires() is awaiting its select
Init ==
    /\ tires = <<>>
    /\ loading = TRUE
    /\ filter = <<>>
    /\ formOpen = FALSE
    /\ editing = NullTire
    /\ form = EmptyForm
    /\ table = <<>>
    /\ bucket = {}
    /\ calls = <<FetchCall("mount", NoCall)>>
    /\ clock = 0
    /\ nextId = 1
    /\ toast = "none"
    /\ prompt = "none"
    /\ csv = <<>>
    /\ focus \in {f \in FormFields : FieldInputs(f) # {}} \cup {"grid"}

\* the "+ Add Tire" button: setFormOpen(true); resetForm()
OpenAdd ==
    /\ formOpen' = TRUE
    /\ editing' = NullTire
    /\ form' = EmptyForm
    /\ UNCHANGED <<tires, loading, filter, table, bucket, calls, clock, nextId,
                   toast, prompt, csv, focus>>

\* the Cancel button: setFormOpen(false); resetForm()
Cancel ==
    /\ formOpen
    /\ formOpen' = FALSE
    /\ editing' = NullTire
    /\ form' = EmptyForm
    /\ UNCHANGED <<tires, loading, filter, table, bucket, calls, clock, nextId,
                   toast, prompt, csv, focus>>

\* onChange of a field of the form: setForm({ ...form, [f]: v })
SetField(f, v) ==
    /\ formOpen
    /\ f = focus
    /\ form' = [form EXCEPT ![f] = v]
    /\ UNCHANGED <<tires, loading, filter, formOpen, editing, table, bucket,
                   calls, clock, nextId, toast, prompt, csv, focus>>

\* the Edit button of a rendered record
HandleEdit(tire) ==
    /\ ~loading
    /\ \E i \in 1..Len(filteredTires) : filteredTires[i] = tire
    /\ editing' = tire
    /\ form' = EditForm(tire)
    /\ formOpen' = TRUE
    /\ UNCHANGED <<tires, loading, filter, table, bucket, calls, clock, nextId,
                   toast, prompt, csv, focus>>

\* onSubmit of the form, up to the first await
HandleSave ==
    /\ formOpen
    /\ Len(calls) < MaxCalls
    /\ clock < MaxClock
    /\ editing = NullTire => nextId + PendingCreates <= MaxIds
    /\ loading' = TRUE
    /\ clock' = clock + 1
    /\ LET image_path == IF editing # NullTire THEN editing.image_path ELSE Null
       IN  IF Truthy(form.image_file)
           THEN \E rnd \in Rands :
                    calls' = Append(calls,
                        [NoCall EXCEPT !.op = "upload", !.form = form,
                                       !.editing = editing,
                                       !.image_path = image_path,
                                       !.fileName =
                                           FileName(clock', rnd, form.image_file)])
           ELSE calls' = Append(calls,
                    WriteCall(form, editing, image_path, Null, clock'))
    /\ UNCHANGED <<tires, filter, formOpen, editing, form, table, bucket, nextId,
                   toast, prompt, csv, focus>>

\* a failure path that also runs resetForm() and setFormOpen(false)
SaveFailedResets(i) ==
    /\ toast' = "error"
    /\ loading' = FALSE
    /\ calls' = Without(i)
    /\ editing' = NullTire
    /\ form' = EmptyForm
    /\ formOpen' = FALSE
    /\ UNCHANGED <<tires, filter, table, bucket, clock, nextId, prompt, csv,
                   focus>>

\* catch and finally of handleSave
SaveFailed(i) ==
    /\ toast' = "error"
    /\ loading' = FALSE
    /\ calls' = Without(i)
    /\ UNCHANGED <<tires, filter, formOpen, editing, form, table, bucket, clock,
                   nextId, prompt, csv, focus>>

\* a resumption that does not look at the upload's error
UploadDoneUnchecked(i) ==
    /\ i \in 1..Len(calls)
    /\ calls[i].op = "upload"
    /\ calls[i].st # "sent"
    /\ calls' = Append(Without(i),
            WriteCall(calls[i].form, calls[i].editing, calls[i].fileName,
                      calls[i].fileName, clock))
    /\ UNCHANGED <<tires, loading, filter, formOpen, editing, form, table,
                   bucket, clock, nextId, toast, prompt, csv, focus>>

\* handleSave resumed after the upload
UploadDone(i) ==
    /\ i \in 1..Len(calls)
    /\ calls[i].op = "upload"
    /\ calls[i].st # "sent"
    /\ IF calls[i].st = "err"
       THEN SaveFailed(i)
       ELSE /\ calls' = Append(Without(i),
                    WriteCall(calls[i].form, calls[i].editing, calls[i].fileName,
                              calls[i].fileName, clock))
            /\ UNCHANGED <<tires, loading, filter, formOpen, editing, form, table,
                           bucket, clock, nextId, toast, prompt, csv, focus>>

\* handleSave resumed after the update / insert
WriteDone(i) ==
    /\ i \in 1..Len(calls)
    /\ calls[i].op \in {"insert", "update"}
    /\ calls[i].st # "sent"
    /\ IF calls[i].st = "err"
       THEN SaveFailed(i)
       ELSE /\ toast' = "success"
            /\ editing' = NullTire
            /\ form' = EmptyForm
            /\ formOpen' = FALSE
            /\ calls' = Append(Without(i), FetchCall("save", calls[i]))
            /\ loading' = FALSE
            /\ UNCHANGED <<tires, filter, table, bucket, clock, nextId, prompt,
                           csv, focus>>

\* a handler that goes on whatever confirm() returned
HandleDeleteUnconfirmed(id, ok) ==
    /\ ~loading
    /\ \E i \in 1..Len(filteredTires) : filteredTires[i].id = id
    /\ focus = "grid"
    /\ prompt' = IF ok THEN "ok" ELSE "cancel"
    /\ Len(calls) < MaxCalls
    /\ loading' = TRUE
    /\ calls' = Append(calls, [NoCall EXCEPT !.op = "delete", !.id = id])
    /\ UNCHANGED <<tires, filter, formOpen, editing, form, table, bucket, clock,
                   nextId, toast, csv, focus>>

\* the Delete button of a rendered record, up to the await; ok is the answer
\* to confirm()
HandleDelete(id, ok) ==
    /\ ~loading
    /\ \E i \in 1..Len(filteredTires) : filteredTires[i].id = id
    /\ focus = "grid"
    /\ prompt' = IF ok THEN "ok" ELSE "cancel"
    /\ IF ok
       THEN /\ Len(calls) < MaxCalls
            /\ loading' = TRUE
            /\ calls' = Append(calls, [NoCall EXCEPT !.op = "delete", !.id = id])
       ELSE UNCHANGED <<loading, calls>>
    /\ UNCHANGED <<tires, filter, formOpen, editing, form, table, bucket, clock,
                   nextId, toast, csv, focus>>

\* handleDelete resumed after the delete
DeleteDone(i) ==
    /\ i \in 1..Len(calls)
    /\ calls[i].op = "delete"
    /\ calls[i].st # "sent"
    /\ IF calls[i].st = "err"
       THEN /\ toast' = "error"
            /\ calls' = Without(i)
       ELSE /\ toast' = "success"
            /\ calls' = Append(Without(i), FetchCall("delete", calls[i]))
    /\ loading' = FALSE
    /\ UNCHANGED <<tires, filter, formOpen, editing, form, table, bucket, clock,
                   nextId, prompt, csv, focus>>

\* fetchTires resumed after the select
FetchDone(i) ==
    /\ i \in 1..Len(calls)
    /\ calls[i].op = "fetch"
    /\ calls[i].st # "sent"
    /\ IF calls[i].st = "err"
       THEN toast' = "error" /\ UNCHANGED tires
       ELSE tires' = calls[i].data /\ UNCHANGED toast
    /\ loading' = FALSE
    /\ calls' = Without(i)
    /\ UNCHANGED <<filter, formOpen, editing, form, table, bucket, clock, nextId,
                   prompt, csv, focus>>

---------------------------------------------------------------------------
(* The backend answers a request that was sent *)

Answer(i, st) == [calls EXCEPT ![i].st = st]

\* any request can fail (network, policy, constraint)
Fail(i) ==
    /\ i \in 1..Len(calls)
    /\ calls[i].st = "sent"
    /\ calls' = Answer(i, "err")
    /\ UNCHANGED <<tires, loading, filter, formOpen, editing, form, table, bucket,
                   clock, nextId, toast, prompt, csv, focus>>

ServeFetch(i) ==
    /\ i \in 1..Len(calls)
    /\ calls[i].op = "fetch"
    /\ calls[i].st = "sent"
    /\ calls' = [calls EXCEPT ![i].st = "ok", ![i].data = ListAll(table)]
    /\ UNCHANGED <<tires, loading, filter, formOpen, editing, form, table, bucket,
                   clock, nextId, toast, prompt, csv, focus>>

\* storage.from("tire-images").upload(fileName, file, { upsert: false })
ServeUpload(i) ==
    /\ i \in 1..Len(calls)
    /\ calls[i].op = "upload"
    /\ calls[i].st = "sent"
    /\ calls[i].fileName \notin bucket
    /\ bucket' = bucket \cup {calls[i].fileName}
    /\ calls' = Answer(i, "ok")
    /\ UNCHANGED <<tires, loading, filter, formOpen, editing, form, table, clock,
                   nextId, toast, prompt, csv, focus>>

ServeInsert(i) ==
    /\ i \in 1..Len(calls)
    /\ calls[i].op = "insert"
    /\ calls[i].st = "sent"
    /\ Storable(calls[i].payload)
    /\ nextId <= MaxIds
    /\ table' = Append(table, StoredRow(calls[i].payload, nextId, nextId))
    /\ nextId' = nextId + 1
    /\ calls' = [calls EXCEPT ![i].st = "ok", ![i].newId = nextId]
    /\ UNCHANGED <<tires, loading, filter, formOpen, editing, form, bucket, clock,
                   toast, prompt, csv, focus>>

ServeUpdate(i) ==
    /\ i \in 1..Len(calls)
    /\ calls[i].op = "update"
    /\ calls[i].st = "sent"
    /\ Storable(calls[i].payload)
    /\ table' = UpdateRows(table, calls[i].editing.id, calls[i].payload)
    /\ calls' = Answer(i, "ok")
    /\ UNCHANGED <<tires, loading, filter, formOpen, editing, form, bucket, clock,
                   nextId, toast, prompt, csv, focus>>

ServeDelete(i) ==
    /\ i \in 1..Len(calls)
    /\ calls[i].op = "delete"
    /\ calls[i].st = "sent"
    /\ table' = DeleteRows(table, calls[i].id)
    /\ calls' = Answer(i, "ok")
    /\ UNCHANGED <<tires, loading, filter, formOpen, editing, form, bucket, clock,
                   nextId, toast, prompt, csv, focus>>

Next ==
    \/ OpenAdd
    \/ Cancel
    \/ \E f \in FormFields : \E v \in FieldInputs(f) : SetField(f, v)
    \/ \E t \in {tires[i] : i \in 1..Len(tires)} : HandleEdit(t)
    \/ HandleSave
    \/ \E t \in {tires[i] : i \in 1..Len(tires)} : \E ok \in BOOLEAN :
           HandleDelete(t.id, ok)
    \/ \E i \in 1..Len(calls) : UploadDone(i)
    \/ \E i \in 1..Len(calls) : WriteDone(i)
    \/ \E i \in 1..Len(calls) : DeleteDone(i)
    \/ \E i \in 1..Len(calls) : FetchDone(i)
    \/ \E i \in 1..Len(calls) : Fail(i)
    \/ \E i \in 1..Len(calls) : ServeFetch(i)
    \/ \E i \in 1..Len(calls) : ServeUpload(i)
    \/ \E i \in 1..Len(calls) : ServeInsert(i)
    \/ \E i \in 1..Len(calls) : ServeUpdate(i)
    \/ \E i \in 1..Len(calls) : ServeDelete(i)

Spec == Init /\ [][Next]_vars

---------------------------------------------------------------------------
(* The search box and the CSV export *)

\* onChange of the search box: setFilter(e.target.value)
SetFilter(q) ==
    /\ filter' = q
    /\ UNCHANGED <<tires, loading, formOpen, editing, form, table, bucket, calls,
                   clock, nextId, toast, prompt, csv, focus>>

Quote == "\""

RECURSIVE DoubleQuotes(_)
\* replace(/"/g, '""')
DoubleQuotes(chars) ==
    IF chars = <<>> THEN <<>>
    ELSE IF Head(chars) = Quote
         THEN <<Quote, Quote>> \o DoubleQuotes(Tail(chars))
         ELSE <<Head(chars)>> \o DoubleQuotes(Tail(chars))

\* `"${(c ?? "").toString().replace(/"/g, '""')}"`
Cell(c) ==
    <<Quote>> \o DoubleQuotes(toString(Coalesce(c, Str(<<>>)))) \o <<Quote>>

RECURSIVE Join(_, _)
\* Array.prototype.join
Join(parts, sep) ==
    IF parts = <<>> THEN <<>>
    ELSE IF Len(parts) = 1 THEN parts[1]
    ELSE parts[1] \o sep \o Join(Tail(parts), sep)

HeaderRow ==
    <<Str(<<"s", "k", "u">>), Str(<<"b", "r", "a", "n", "d">>),
      Str(<<"m", "o", "d", "e", "l">>), Str(<<"s", "i", "z", "e">>),
      Str(<<"p", "l", "y">>), Str(<<"p", "r", "i", "c", "e">>),
      Str(<<"c", "o", "n", "d", "i", "t", "i", "o", "n">>),
      Str(<<"q", "u", "a", "n", "t", "i", "t", "y">>),
      Str(<<"n", "o", "t", "e", "s">>),
      Str(<<"i", "m", "a", "g", "e", "_", "p", "a", "t", "h">>)>>

\* t => [t.sku, t.brand, ..., t.image_path]
RecordRow(t) ==
    <<t.sku, t.brand, t.model, t.size, t.ply, t.price, t.condition, t.quantity,
      t.notes, t.image_path>>

\* the text downloadCSV builds from a list
CsvOf(ts) ==
    LET rows == <<HeaderRow>> \o [i \in 1..Len(ts) |-> RecordRow(ts[i])]
    IN  Join([i \in 1..Len(rows) |->
                 Join([j \in 1..Len(rows[i]) |-> Cell(rows[i][j])], <<",">>)],
             <<"\n">>)

\* an export of the records the grid shows
DownloadFilteredCSV ==
    /\ csv' = CsvOf(filteredTires)
    /\ UNCHANGED <<tires, loading, filter, formOpen, editing, form, table, bucket,
                   calls, clock, nextId, toast, prompt, focus>>

\* the "Export CSV" button
DownloadCSV ==
    /\ csv' = CsvOf(tires)
    /\ UNCHANGED <<tires, loading, filter, formOpen, editing, form, table, bucket,
                   calls, clock, nextId, toast, prompt, focus>>

---------------------------------------------------------------------------
(* The view on its own: a list that was fetched, the search box and the     *)
(* export.  The lists are drawn from records of the table as the store can  *)
(* hold them: columns left null, mixed case, blanks, quotes, commas and     *)
(* line breaks in the text.                                                 *)

SampleRow(id, sku, brand, model, size, notes, price, quantity, image_path) ==
    [id |-> id, sku |-> sku, brand |-> brand, model |-> model, size |-> size,
     ply |-> Str(<<>>), price |-> price, condition |-> Str(New),
     quantity |-> quantity, notes |-> notes, image_path |-> image_path,
     created_at |-> id, updated_at |-> id]

SampleRows ==
    {SampleRow(1, Str(<<"a", "B">>), Str(<<"A", "b">>), Str(<<>>), Str(<<>>),
               Str(<<"a", Quote, "b">>), Num(5), Num(2), Null),
     SampleRow(2, Null, Null, Null, Null, Null, Null, Null, Null),
     SampleRow(3, Str(<<>>), Str(<<"b", " ", "a">>), Str(<<"B">>), Str(<<>>),
               Str(<<",", "\n">>), Num(0), Num(0), Str(<<"1", "-", "r", ".", "j">>)),
     SampleRow(4, Str(<<"b">>), Str(<<>>), Str(<<>>), Str(<<"a", "B">>),
               Str(<<Quote>>), Num(12), Num(10), Null),
     SampleRow(5, Str(<<"x">>), Str(<<"x">>), Str(<<"A">>), Str(<<>>),
               Str(<<>>), Null, Num(3), Null)}

\* the lists a select can return: records of distinct ids, newest first
SampleLists ==
    {ts \in UNION {[1..n -> SampleRows] : n \in 0..MaxList} :
        \A i, j \in 1..Len(ts) : i < j => ts[i].id > ts[j].id}

Queries ==
    {<<>>, <<"a">>, <<"A">>, <<"b">>, <<"a", "b">>, <<"A", "B">>, <<" ">>,
     <<" ", "a">>, <<"b", " ">>, <<"b", " ", "a">>, <<"z">>}

InitView ==
    /\ tires \in SampleLists
    /\ loading = FALSE
    /\ filter = <<>>
    /\ formOpen = FALSE
    /\ editing = NullTire
    /\ form = EmptyForm
    /\ table = <<>>
    /\ bucket = {}
    /\ calls = <<>>
    /\ clock = 0
    /\ nextId = 1
    /\ toast = "none"
    /\ prompt = "none"
    /\ csv = <<>>
    /\ focus = "grid"

NextView ==
    \/ \E q \in Queries : SetFilter(q)
    \/ DownloadCSV

SpecView == InitView /\ [][NextView]_vars

---------------------------------------------------------------------------
(* Properties *)

\* the step resumes the handler suspended at calls[i]: its request was
\* answered, and the step takes the invocation off the list, putting at most
\* one new request at the end
Consumed(i) ==
    /\ i \in 1..Len(calls)
    /\ calls[i].st # "sent"
    /\ calls' # calls
    /\ Len(calls') \in {Len(calls) - 1, Len(calls)}
    /\ SubSeq(calls', 1, Len(calls) - 1) = Without(i)

\* the step suspends a new handler invocation
Suspended == Len(calls') = Len(calls) + 1 /\ SubSeq(calls', 1, Len(calls)) = calls

\* C1: for each of save and delete, at most one invocation is between its
\* start and its completion: the busy flag keeps a second one from starting.
AtMostOneSaveAndOneDeleteInFlight ==
    Cardinality(Saves) <= 1 /\ Cardinality(Deletes) <= 1

\* C10: while any request of fetchTires, handleSave or handleDelete is
\* unresolved, loading is true.
LoadingCoversEveryRequest == calls # <<>> => loading

\* the columns of a record that the form edits, with the field of the draft
\* that holds each
Columns ==
    {"sku", "brand", "model", "size", "ply", "price", "condition", "quantity",
     "notes", "image_path"}

DraftField(col) == IF col = "image_path" THEN "image_file" ELSE col

\* C4: an edit writes back, for every field the user left as handleEdit
\* seeded it, the value the record had when it was opened.
EditPreservesUneditedFields ==
    \A i \in Saves :
        calls[i].op = "update" =>
            \A col \in Columns :
                calls[i].form[DraftField(col)]
                        = EditForm(calls[i].editing)[DraftField(col)]
                    => StoredRow(calls[i].payload, 0, 0)[col] = calls[i].editing[col]

---------------------------------------------------------------------------
(* C2: create *)

Blank(v) == v.k = "str" /\ v.s = <<>>

Numeric(v) ==
    \/ v.k = "num"
    \/ v.k = "str" /\ v.s # <<>> /\ \A i \in 1..Len(v.s) : IsDigit(v.s[i])

ValueOf(v) == IF v.k = "num" THEN v.n ELSE ParseDigits(v.s, 0)

\* the record a create stores for a draft: the text as typed, a blank price
\* as 0, a blank or non-numeric quantity as 0
MatchesDraft(row, f) ==
    /\ \A c \in {"sku", "brand", "model", "size", "ply", "condition", "notes"} :
           row[c] = f[c]
    /\ row.price = IF Blank(f.price) THEN Num(0) ELSE Num(ValueOf(f.price))
    /\ row.quantity = IF Numeric(f.quantity) THEN Num(ValueOf(f.quantity))
                      ELSE Num(0)
    /\ f.image_file = Null => row.image_path = Null

\* calls[i] is the answered refresh of a create whose insert succeeded, the
\* response is the table as it stands, and the list on screen is the table
\* without the row that create inserted
CreateRefreshArrives(i) ==
    /\ calls[i].op = "fetch"
    /\ calls[i].st = "ok"
    /\ calls[i].origin = "save"
    /\ calls[i].editing = NullTire
    /\ calls[i].newId \in Ids(table)
    /\ calls[i].data = ListAll(table)
    /\ tires = ListAll(DeleteRows(table, calls[i].newId))

---------------------------------------------------------------------------
(* C3: delete and the refreshes around it *)

\* the ids of the records a delete has removed from the table
DeletedIds == (1..(nextId - 1)) \ Ids(table)

\* C3 as claimed: once a delete has succeeded at the backend, every list a
\* fetch response installs afterwards omits the deleted record, whatever the
\* order in which the outstanding responses arrive.
NoResponseShowsADeletedRecord ==
    [][\A i \in 1..Len(calls) :
          (Consumed(i) /\ calls[i].op = "fetch" /\ calls[i].st = "ok") =>
              Ids(tires') \cap DeletedIds = {}]_vars

\* calls[i] is the answered refresh that handleDelete started
DeleteRefreshAnswered(i) ==
    calls[i].op = "fetch" /\ calls[i].st = "ok" /\ calls[i].origin = "delete"

\* C3 as amended: the response of the refresh that handleDelete(id) starts
\* omits id and holds every record the table held when it was read; the list
\* it installs is that response, and when that list is the list before
\* without the record, total items drops by the record's quantity.
DeleteRefreshOmitsTheRecord ==
    /\ [][\A i \in 1..Len(calls) :
            (calls[i].op = "fetch" /\ calls[i].origin = "delete"
                /\ calls[i].st = "sent" /\ Len(calls') = Len(calls)
                /\ calls' = [calls EXCEPT ![i] = calls'[i]]
                /\ calls'[i].st = "ok") =>
                   /\ calls[i].id \notin Ids(calls'[i].data)
                   /\ Ids(calls'[i].data) = Ids(table) \ {calls[i].id}
                   /\ calls'[i].data = ListAll(table)]_vars
    /\ [][\A i \in 1..Len(calls) :
            (Consumed(i) /\ DeleteRefreshAnswered(i)) =>
                /\ tires' = calls[i].data
                /\ \A k \in 1..Len(tires) :
                       (tires[k].id = calls[i].id
                           /\ tires' = DeleteRows(tires, calls[i].id)) =>
                          InventoryCount(tires') =
                              InventoryCount(tires) - ValueOf(tires[k].quantity)]_vars

\* the refresh of a delete is about to arrive: the list still shows the
\* record, with a quantity, beside another one, and the response has only
\* the other one
DeleteRefreshAboutToArrive ==
    \E i \in 1..Len(calls) :
        /\ DeleteRefreshAnswered(i)
        /\ calls[i].id \in Ids(tires)
        /\ Len(tires) = 2
        /\ InventoryCount(tires) > InventoryCount(calls[i].data)
        /\ calls[i].data = DeleteRows(tires, calls[i].id)

---------------------------------------------------------------------------
(* C5, C6: handleSave *)

\* calls[i] is a save whose upload or write failed
SaveFailedAt(i) ==
    calls[i].op \in {"upload", "insert", "update"} /\ calls[i].st = "err"

\* C5: a save that fails at its upload or at its write shows an error
\* notification and completes leaving the form open state, the draft, the
\* record being edited and the list as they are and starting no refresh;
\* nor did its submission change any of them.
FailedSaveLeavesTheFormForRetry ==
    /\ [][\A i \in 1..Len(calls) :
            (Consumed(i) /\ SaveFailedAt(i)) =>
                /\ toast' = "error"
                /\ calls' = Without(i)
                /\ UNCHANGED <<formOpen, form, editing, tires>>]_vars
    /\ [][(Suspended /\ calls'[Len(calls')].op \in {"upload", "insert", "update"}) =>
            /\ formOpen
            /\ calls'[Len(calls')].form = form
            /\ calls'[Len(calls')].editing = editing
            /\ UNCHANGED <<formOpen, form, editing, tires>>]_vars

\* a save with a picked image has failed and completed: the form is open
\* with its draft, and the error is shown
FailedSaveCompleted ==
    /\ toast = "error"
    /\ calls = <<>>
    /\ ~loading
    /\ formOpen
    /\ Truthy(form.image_file)
    /\ clock = 1
    /\ table = <<>>

\* the image reference handleSave writes for a draft and the record edited
WrittenImage(c) ==
    IF Truthy(c.form.image_file) THEN c.fileName
    ELSE IF c.editing # NullTire THEN c.editing.image_path
    ELSE Null

\* C6: a record write is in flight only after the upload of the draft's
\* pending file, if it has one, has succeeded, and it carries that blob's
\* name; without a pending file it carries the edited record's reference, or
\* null for a create; it is an update exactly when a record is being edited;
\* and a save whose upload failed issues no write.
UploadPrecedesTheWrite ==
    /\ [](\A i \in 1..Len(calls) :
            calls[i].op \in {"insert", "update"} =>
                /\ calls[i].payload.image_path = WrittenImage(calls[i])
                /\ Truthy(calls[i].form.image_file) =>
                       /\ calls[i].payload.image_path \in bucket
                       /\ calls[i].payload.image_path # calls[i].editing.image_path
                /\ calls[i].op = "update" <=> calls[i].editing # NullTire)
    /\ [][\A i \in 1..Len(calls) :
            (Consumed(i) /\ calls[i].op = "upload") =>
                IF calls[i].st = "err"
                THEN calls' = Without(i)
                ELSE /\ Len(calls') = Len(calls)
                     /\ calls'[Len(calls')].op \in {"insert", "update"}
                     /\ calls'[Len(calls')].form = calls[i].form]_vars

\* an update that replaces the image of a record that had one is in flight
ImageReplacedByUpdate ==
    \E i \in 1..Len(calls) :
        /\ calls[i].op = "update"
        /\ calls[i].st = "sent"
        /\ Truthy(calls[i].form.image_file)
        /\ calls[i].editing.image_path # Null
        /\ calls[i].payload.image_path \in bucket

---------------------------------------------------------------------------
(* C7: handleDelete *)

\* C7: a delete request is sent only in a step in which the user confirmed
\* the prompt; a declined prompt leaves the list, the loading flag, the form
\* and the requests as they are; a delete that fails leaves the list as it
\* is and starts no refresh.
DeleteOnlyAfterConfirmation ==
    /\ [][(Suspended /\ calls'[Len(calls')].op = "delete") =>
            /\ prompt' = "ok"
            /\ calls'[Len(calls')].id \in Ids(tires)]_vars
    /\ [][(prompt' = "cancel" /\ prompt # "cancel") =>
            UNCHANGED <<tires, loading, formOpen, form, editing, calls, table,
                        toast>>]_vars
    /\ [][\A i \in 1..Len(calls) :
            (Consumed(i) /\ calls[i].op = "delete" /\ calls[i].st = "err") =>
                /\ calls' = Without(i)
                /\ UNCHANGED <<tires, table>>]_vars

\* the user has declined the prompt for a record: nothing is in flight and
\* the record is still listed and stored
DeleteDeclined ==
    /\ prompt = "cancel"
    /\ calls = <<>>
    /\ ~loading
    /\ tires # <<>>
    /\ tires = ListAll(table)

---------------------------------------------------------------------------
(* C8: search *)

\* the characters of a text column, none for a column left null
TextOf(v) == IF v.k = "str" THEN v.s ELSE <<>>

\* chars contains q at some offset, letter case apart
ContainsCI(chars, q) ==
    \E off \in 0..(Len(chars) - Len(q)) :
        \A j \in 1..Len(q) : LowerChar(chars[off + j]) = LowerChar(q[j])

\* brand, model, size or sku of t contains q, letter case apart
Wanted(t, q) ==
    \E c \in {"brand", "model", "size", "sku"} : ContainsCI(TextOf(t[c]), q)

\* C8 as claimed: the grid shows, in the order of the list, exactly the
\* records one of whose brand, model, size and sku contains the query as it
\* stands in the search box; filtering the result again changes nothing; an
\* empty query shows the list.
SearchShowsRecordsContainingTheQuery ==
    /\ filteredTires = SelectSeq(tires, LAMBDA t : Wanted(t, filter))
    /\ FilteredTires(filteredTires, filter) = filteredTires
    /\ filter = <<>> => filteredTires = tires

\* C8 as amended: the same with the query taken without its leading and
\* trailing blanks, a query that is empty or all blanks showing the list;
\* and a change of the query leaves the list as it is.
SearchShowsRecordsContainingTheTrimmedQuery ==
    /\ [](/\ filteredTires = SelectSeq(tires, LAMBDA t : Wanted(t, trim(filter)))
          /\ FilteredTires(filteredTires, filter) = filteredTires
          /\ trim(filter) = <<>> => filteredTires = tires)
    /\ [][filter' # filter => tires' = tires]_vars

\* a query with a leading blank is in the search box and the grid shows
\* some of the records, not all
SearchWithALeadingBlank ==
    /\ filter = <<" ", "a">>
    /\ filteredTires # <<>>
    /\ Len(filteredTires) < Len(tires)

---------------------------------------------------------------------------
(* C9: CSV export *)

\* the number of quotes of text t at the positions from..to
QuotesIn(t, from, to) == Cardinality({p \in from..to : t[p] = Quote})

\* the positions of text t at which character c stands outside quotes
Outside(t, c, from, to) ==
    {p \in from..to : t[p] = c /\ QuotesIn(t, from, p - 1) % 2 = 0}

\* the k-th position of a set of positions
Kth(ps, k) == CHOOSE p \in ps : Cardinality({q \in ps : q < p}) = k - 1

\* the pieces [from, to] into which the positions `cuts` split from..to
Pieces(cuts, from, to) ==
    LET n == Cardinality(cuts)
        cut(k) == IF k = 0 THEN from - 1
                  ELSE IF k = n + 1 THEN to + 1
                  ELSE Kth(cuts, k)
    IN  [k \in 1..(n + 1) |-> [from |-> cut(k - 1) + 1, to |-> cut(k) - 1]]

Malformed == <<"malformed">>

\* the text of the quoted field at from..to of t: the characters between its
\* quotes, each pair of quotes read as one; Malformed if the field is not
\* quoted or a quote inside it stands alone
Unquoted(t, from, to) ==
    LET first(p) == t[p] = Quote /\ QuotesIn(t, from + 1, p) % 2 = 1
        kept == {p \in (from + 1)..(to - 1) :
                    t[p] # Quote \/ first(p)}
    IN  IF /\ to > from
           /\ t[from] = Quote
           /\ t[to] = Quote
           /\ \A p \in (from + 1)..(to - 1) :
                  first(p) => p + 1 <= to - 1 /\ t[p + 1] = Quote
        THEN [k \in 1..Cardinality(kept) |-> t[Kth(kept, k)]]
        ELSE Malformed

\* a reader of CSV text in which every field is quoted and a quote inside a
\* field is doubled: the rows of the text, each the texts of its fields
ReadCsv(t) ==
    LET lines == Pieces(Outside(t, "\n", 1, Len(t)), 1, Len(t))
        fields(l) == Pieces(Outside(t, ",", l.from, l.to), l.from, l.to)
    IN  [i \in 1..Len(lines) |->
            [j \in 1..Len(fields(lines[i])) |->
                Unquoted(t, fields(lines[i])[j].from, fields(lines[i])[j].to)]]

\* the text a field of a record has in the export: none for null, the
\* decimal digits of a number
FieldText(v) ==
    CASE v.k = "null" -> <<>>
      [] v.k = "num" -> NatToString(v.n)
      [] OTHER -> v.s

ExportedColumns ==
    <<"sku", "brand", "model", "size", "ply", "price", "condition", "quantity",
      "notes", "image_path">>

\* C9: the exported text reads back as the header row followed by one row
\* per record of the list, in the order of the list, whatever the search
\* query: ten fields each, in the fixed order, every one quoted, null as the
\* empty text, every quote inside a value doubled.
CsvIsTheWholeListQuoted ==
    csv # <<>> =>
        LET rows == ReadCsv(csv) IN
        /\ Len(rows) = Len(tires) + 1
        /\ rows[1] = [j \in 1..10 |-> HeaderRow[j].s]
        /\ \A i \in 1..Len(tires) :
               rows[i + 1] = [j \in 1..10 |-> FieldText(tires[i][ExportedColumns[j]])]

\* the list was exported while the search box hid some of its records, one
\* of them with a quote in its notes and one with columns left null
CsvExportedUnderASearch ==
    /\ csv # <<>>
    /\ filter # <<>>
    /\ Len(filteredTires) < Len(tires)
    /\ \E i \in 1..Len(tires) : \E k \in 1..Len(TextOf(tires[i].notes)) :
           tires[i].notes.s[k] = Quote
    /\ \E i \in 1..Len(tires) : tires[i].brand = Null

====
